---- MODULE Spec2Model ----
(***************************************************************************)
(* Model of the two example programs of go-handbook/gcp/examples:          *)
(*   - the wide-column (Bigtable) example, src/gcp/examples/big_table.go   *)
(*   - the warehouse (BigQuery) example,   src/unnamed/part_000            *)
(*                                                                         *)
(* 64-bit integers do not fit TLC's integers, so an integer is a sequence  *)
(* of decimal digits (most significant first) and a uint64 is a sequence   *)
(* of 64 bits.  A string that is compared byte-wise (a row key) is a       *)
(* sequence of byte values.                                                *)
(***************************************************************************)
EXTENDS Integers, Sequences, FiniteSets, TLC

----------------------------------------------------------------------------
(* Decimal arithmetic on fixed-width digit sequences.                      *)

\* math.MaxUint64 = 2^64 - 1, the all-ones uint64
MaxUint64 == <<1,8,4,4,6,7,4,4,0,7,3,7,0,9,5,5,1,6,1,5>>

\* width of the digit sequences: the longest uint64 numeral
W == Len(MaxUint64)

RECURSIVE Range(_, _, _)
\* the sequence f[lo], ..., f[hi]; f[lo] is evaluated first
Range(f, lo, hi) ==
    IF lo > hi THEN <<>>
    ELSE <<f[lo]>> \o Range(f, lo + 1, (lo + hi) \div 2)
                   \o Range(f, (lo + hi) \div 2 + 1, hi)

\* the sequence f[1], ..., f[n], every element evaluated once
Tuple(f, n) == Range(f, 1, n)

\* the digit sequence of a small natural number (below 10^10)
FromNat(n) ==
    Tuple([i \in 1..W |-> IF W - i > 9 THEN 0 ELSE (n \div (10^(W - i))) % 10], W)

RECURSIVE CarryIn(_, _, _)
\* carry into digit i of a + b
CarryIn(a, b, i) ==
    IF i = W THEN 0 ELSE (a[i+1] + b[i+1] + CarryIn(a, b, i+1)) \div 10

\* a + b (mod 10^W)
Add(a, b) == Tuple([i \in 1..W |-> (a[i] + b[i] + CarryIn(a, b, i)) % 10], W)

RECURSIVE BorrowIn(_, _, _)
\* borrow taken from digit i of a - b
BorrowIn(a, b, i) ==
    IF i = W THEN 0
    ELSE IF a[i+1] - b[i+1] - BorrowIn(a, b, i+1) < 0 THEN 1 ELSE 0

\* a - b, for a >= b
Sub(a, b) ==
    Tuple([i \in 1..W |-> (a[i] - b[i] - BorrowIn(a, b, i) + 10) % 10], W)

\* a < b, numerically
Less(a, b) ==
    \E i \in 1..W : a[i] < b[i] /\ \A j \in 1..(i-1) : a[j] = b[j]

\* a * 1000 (the three leading digits of a are zero)
Mul1000(a) == Tuple([i \in 1..W |-> IF i + 3 <= W THEN a[i+3] ELSE 0], W)

\* number of bits of a uint64
Bits64 == 64

\* the bits of a uint64 are handled 16 at a time
LimbBits == Bits64 \div 4

\* 2^16, which with a decimal digit still fits TLC's integers
LimbBase == 2^LimbBits

RECURSIVE RemTo(_, _, _)
\* the number made of the first i digits of a, modulo k
RemTo(a, k, i) == IF i = 0 THEN 0 ELSE (a[i] + 10 * RemTo(a, k, i - 1)) % k

\* a \div k, for a small k
DivSmall(a, k) ==
    Tuple([i \in 1..W |-> (a[i] + 10 * RemTo(a, k, i - 1)) \div k], W)

\* a % k, for a small k
ModSmall(a, k) == RemTo(a, k, W)

RECURSIVE CarryMul(_, _, _, _)
\* carry into digit i of a * k + c
CarryMul(a, k, c, i) ==
    IF i = W THEN c ELSE (a[i+1] * k + CarryMul(a, k, c, i + 1)) \div 10

\* a * k + c (mod 10^W), for small k and c
MulSmallAdd(a, k, c) ==
    Tuple([i \in 1..W |-> (a[i] * k + CarryMul(a, k, c, i)) % 10], W)

\* A signed integer: sign and magnitude, zero is not negative.
Signed(neg, mag) == [neg |-> neg /\ mag /= FromNat(0), mag |-> mag]

\* x + n for a signed x and a natural n
SAddNat(x, n) ==
    IF ~x.neg THEN Signed(FALSE, Add(x.mag, n))
    ELSE IF Less(n, x.mag) THEN Signed(TRUE, Sub(x.mag, n))
    ELSE Signed(FALSE, Sub(n, x.mag))

\* x < y for signed x, y
SLess(x, y) ==
    IF x.neg /\ ~y.neg THEN TRUE
    ELSE IF ~x.neg /\ y.neg THEN FALSE
    ELSE IF x.neg THEN Less(y.mag, x.mag)
    ELSE Less(x.mag, y.mag)

----------------------------------------------------------------------------
(* time.Time, uint64 and fmt's %d.                                         *)

\* time.Time: seconds since the epoch (int64, floor) and nanoseconds within
\* the second
\* t.UnixMilli(): sec*1e3 + nsec/1e6
UnixMilli(t) ==
    SAddNat(Signed(t.sec.neg, Mul1000(t.sec.mag)), FromNat(t.nsec \div 1000000))

\* limb j (0 is the lowest) of the natural number a: (a \div 2^(16 j)) % 2^16
LimbOf(a, j) ==
    IF j = 0 THEN ModSmall(a, LimbBase)
    ELSE IF j = 1 THEN ModSmall(DivSmall(a, LimbBase), LimbBase)
    ELSE IF j = 2 THEN ModSmall(DivSmall(DivSmall(a, LimbBase), LimbBase), LimbBase)
    ELSE ModSmall(DivSmall(DivSmall(DivSmall(a, LimbBase), LimbBase), LimbBase), LimbBase)

\* the low 64 bits of the natural number a; bit k (0 is the lowest) is element
\* Bits64 - k
BitsOf(a) ==
    LET l0 == LimbOf(a, 0)
        l1 == LimbOf(a, 1)
        l2 == LimbOf(a, 2)
        l3 == LimbOf(a, 3)
        limb(j) == IF j = 0 THEN l0 ELSE IF j = 1 THEN l1 ELSE IF j = 2 THEN l2 ELSE l3
    IN  Tuple([i \in 1..Bits64 |->
                 LET k == Bits64 - i
                 IN  (limb(k \div LimbBits) \div (2^(k % LimbBits))) % 2], Bits64)

RECURSIVE LimbVal(_, _, _)
\* the value of the n bits of limb j of the bit sequence b, from its top bit
LimbVal(b, j, n) ==
    IF n = 0 THEN 0
    ELSE b[Bits64 - (j * LimbBits + LimbBits - 1) + (n - 1)] + 2 * LimbVal(b, j, n - 1)

\* the natural number of a sequence of 64 bits
DecOf(b) ==
    LET d3 == FromNat(LimbVal(b, 3, LimbBits))
        d2 == MulSmallAdd(d3, LimbBase, LimbVal(b, 2, LimbBits))
        d1 == MulSmallAdd(d2, LimbBase, LimbVal(b, 1, LimbBits))
    IN  MulSmallAdd(d1, LimbBase, LimbVal(b, 0, LimbBits))

\* uint64(m) for an int64 m: the two's-complement bits, i.e. m mod 2^64
Uint64(m) ==
    BitsOf(IF m.neg THEN Add(Sub(MaxUint64, m.mag), FromNat(1)) ELSE m.mag)

\* ^u: every bit flipped
Not64(u) == Tuple([i \in 1..Len(u) |-> 1 - u[i]], Len(u))

RECURSIVE StripZeros(_)
\* a digit sequence without its leading zeros (one digit is always kept)
StripZeros(s) ==
    IF Len(s) > 1 /\ s[1] = 0 THEN StripZeros(Tail(s)) ELSE s

\* the byte of a decimal digit
DigitByte(dg) == 48 + dg

\* fmt's %d of a uint64: the decimal numeral, no padding
FormatUint(u) ==
    LET s == StripZeros(DecOf(u))
    IN  Tuple([i \in 1..Len(s) |-> DigitByte(s[i])], Len(s))

\* the byte '#'
Hash == 35

\* "sensor-42"
Sensor42 == <<115, 101, 110, 115, 111, 114, 45, 52, 50>>

\* rowKey with t.UnixMicro() in the place of t.UnixMilli()
rowKeyMicro(deviceID, t) ==
    LET micro == SAddNat(Signed(t.sec.neg, Mul1000(Mul1000(t.sec.mag))),
                         FromNat(t.nsec \div 1000))
    IN  deviceID \o <<Hash>> \o FormatUint(Not64(Uint64(micro)))

\* rowKey with t.Unix() in the place of t.UnixMilli()
rowKeySeconds(deviceID, t) ==
    deviceID \o <<Hash>> \o FormatUint(Not64(Uint64(t.sec)))

\* rowKey without the complement
rowKeyPlain(deviceID, t) ==
    deviceID \o <<Hash>> \o FormatUint(Uint64(UnixMilli(t)))

\* rowKey with %020d in the place of %d
rowKeyPadded(deviceID, t) ==
    LET dec == DecOf(Not64(Uint64(UnixMilli(t))))
    IN  deviceID \o <<Hash>> \o Tuple([i \in 1..W |-> DigitByte(dec[i])], W)

\* rowKey(deviceID, t): fmt.Sprintf("%s#%d", deviceID, ^uint64(t.UnixMilli()))
rowKey(deviceID, t) ==
    LET reversed == Not64(Uint64(UnixMilli(t)))
    IN  deviceID \o <<Hash>> \o FormatUint(reversed)

----------------------------------------------------------------------------
(* Inputs.                                                                 *)

\* how many consecutive milliseconds are taken after each base instant
MaxMs == 1

\* how many rows a query result holds at most
MaxRows == 2

\* how many records a batch handed to insertEvents holds at most
MaxBatch == 3

\* an int64 count of seconds
Sec(neg, mag) == Signed(neg, mag)

\* seconds since the epoch of the instants considered: the epoch, the second
\* before it, a present-day instant, and the second in which the complement of
\* the millisecond count drops below 10^19
Seconds ==
    { Sec(FALSE, FromNat(0)),
      Sec(TRUE, FromNat(1)),
      Sec(FALSE, FromNat(1762000000)),
      Sec(FALSE, <<0,0,0,0,8,4,4,6,7,4,4,0,7,3,7,0,9,5,5,1>>) }

\* nanoseconds within the second: whole milliseconds after three bases, and
\* one value that is no whole millisecond
Nanos ==
    { b + k * 1000000 : b \in {0, 615000000, 989000000}, k \in 0..MaxMs }
        \cup {999999}

\* the largest and the smallest instant whose UnixMilli is an int64
MaxTime == [sec |-> Sec(FALSE, <<0,0,0,0,9,2,2,3,3,7,2,0,3,6,8,5,4,7,7,5>>),
            nsec |-> 807000000]
MinTime == [sec |-> Sec(TRUE, <<0,0,0,0,9,2,2,3,3,7,2,0,3,6,8,5,4,7,7,6>>),
            nsec |-> 192000000]

\* time.Time values: the results time.Now() may give, and the arguments of rowKey
Times == [sec : Seconds, nsec : Nanos] \cup {MaxTime, MinTime}

\* device identifiers: "sensor-42" and "s#1"
Devices == {Sensor42, <<115, Hash, 49>>}

\* "sensor-42#", the prefix main hands to scanRows
Sensor42Prefix == <<115, 101, 110, 115, 111, 114, 45, 52, 50, 35>>

\* the placeholder project identifier the warehouse example rejects
Placeholder == "your-gcp-project-id"

\* the environment os.Getenv sees once godotenv.Load has been tried; a variable
\* that is not set reads as ""
WarehouseEnvs ==
    [PROJECT_ID : {"", Placeholder, "proj"},
     BIG_QUERY_DATASET_ID : {"", "ds"},
     BIG_QUERY_TABLE_ID : {"", "tbl"},
     BIG_QUERY_INSERT_SAMPLE : {"", "1"},
     INSTANCE_ID : {""}, TABLE_ID : {""}, COLUMN_FAMILY : {""}]

WideColumnEnvs ==
    [PROJECT_ID : {"", "proj"},
     BIG_QUERY_DATASET_ID : {""},
     BIG_QUERY_TABLE_ID : {""},
     BIG_QUERY_INSERT_SAMPLE : {""},
     INSTANCE_ID : {"", "inst"}, TABLE_ID : {"", "tbl"}, COLUMN_FAMILY : {"", "cf"}]

\* EventRow values (the fields a saver is asked about)
EventRows == [EventID : {"evt-1", "evt-2"}, DeviceID : {"device-123", "device-9"}]

RECURSIVE SeqsUpTo(_, _)
\* the sequences over S of length at most n
SeqsUpTo(S, n) ==
    IF n = 0 THEN {<<>>}
    ELSE LET shorter == SeqsUpTo(S, n - 1)
         IN  shorter \cup {Append(q, e) : q \in shorter, e \in S}

----------------------------------------------------------------------------
(* State.                                                                  *)

VARIABLES
    prog,       \* which of the two programs this run is
    pc,         \* where the run is
    dotenvOK,   \* whether godotenv.Load finds and reads the .env file
    env,        \* the environment after godotenv.Load was tried
    warned,     \* the warehouse example logged its .env warning
    calls,      \* the external operations started so far, in order
    opened,     \* the clients constructed so far, in order
    closed,     \* the clients closed so far
    key,        \* the row key writeRow returned
    it,         \* rows the query's iterator still holds
    status,     \* "running", "exit0" or "exit1"
    fatal,      \* which log.Fatal ended the run, "" if none
    device, t1, t2, k1, k2, other, kpc,   \* two calls of rowKey and what lies between
    rows, put, insertErr, ipc             \* one call of insertEvents

progVars == <<prog, pc, dotenvOK, env, warned, calls, opened, closed, key, it,
              status, fatal>>
keyVars == <<device, t1, t2, k1, k2, other, kpc>>
insVars == <<rows, put, insertErr, ipc>>
vars == <<progVars, keyVars, insVars>>

\* no program is run
ProgIdle ==
    /\ prog = "none" /\ pc = "exited" /\ dotenvOK = TRUE
    /\ env \in {e \in WideColumnEnvs : \A v \in DOMAIN e : e[v] = ""}
    /\ warned = FALSE /\ calls = <<>> /\ opened = <<>> /\ closed = {}
    /\ key = <<>> /\ it = 0 /\ status = "exit0" /\ fatal = ""

\* rowKey is not called
KeyIdle ==
    /\ device = <<>> /\ t1 = MaxTime /\ t2 = MaxTime
    /\ k1 = <<>> /\ k2 = <<>> /\ other = <<>> /\ kpc = "done"

\* insertEvents is not called
InsIdle == rows = <<>> /\ put = <<>> /\ insertErr = "" /\ ipc = "done"

----------------------------------------------------------------------------
(* The external services: every call may succeed or fail.                  *)

Call(op, arg, ok) == [op |-> op, arg |-> arg, ok |-> ok]

\* log.Fatal / log.Fatalf: os.Exit(1), deferred calls do not run
Fatal(why) ==
    /\ status' = "exit1"
    /\ fatal' = why
    /\ pc' = "exited"

\* main returns: its deferred client.Close() runs, the process exits with 0
MainReturns(stillClosed) ==
    /\ closed' = stillClosed \cup {"main"}
    /\ status' = "exit0"
    /\ pc' = "exited"
    /\ fatal' = fatal

----------------------------------------------------------------------------
(* The wide-column example, src/gcp/examples/big_table.go.                 *)

\* loadConfig that only warns when the .env file cannot be loaded
loadConfigWarnOnly ==
    /\ prog = "widecolumn" /\ pc = "loadConfig"
    /\ warned' = ~dotenvOK
    /\ pc' = "createBigtableClient"
    /\ UNCHANGED <<prog, dotenvOK, env, calls, opened, closed, key, it, status, fatal>>
    /\ UNCHANGED <<keyVars, insVars>>

\* loadConfig: a .env file that cannot be loaded is fatal; the values are
\* taken as they are, empty or not
loadConfig ==
    /\ prog = "widecolumn" /\ pc = "loadConfig"
    /\ IF dotenvOK
       THEN pc' = "createBigtableClient" /\ UNCHANGED <<status, fatal>>
       ELSE Fatal("dotenv")
    /\ UNCHANGED <<prog, dotenvOK, env, warned, calls, opened, closed, key, it>>
    /\ UNCHANGED <<keyVars, insVars>>

\* createBigtableClient, then main's defer client.Close() and client.Open
createBigtableClient ==
    /\ prog = "widecolumn" /\ pc = "createBigtableClient"
    /\ \E ok \in BOOLEAN :
         /\ calls' = Append(calls, Call("NewClient", <<>>, ok))
         /\ IF ok
            THEN /\ opened' = Append(opened, "main")
                 /\ pc' = "writeRow"
                 /\ UNCHANGED <<status, fatal>>
            ELSE /\ Fatal("NewClient")
                 /\ UNCHANGED opened
    /\ UNCHANGED <<prog, dotenvOK, env, warned, closed, key, it>>
    /\ UNCHANGED <<keyVars, insVars>>

\* writeRow that returns the key of a second time.Now()
writeRowFreshKey ==
    /\ prog = "widecolumn" /\ pc = "writeRow"
    /\ \E now \in Times, later \in Times, ok \in BOOLEAN :
         /\ calls' = Append(calls, Call("Apply", rowKey(Sensor42, now), ok))
         /\ IF ok
            THEN /\ key' = rowKey(Sensor42, later)
                 /\ pc' = "readRow"
                 /\ UNCHANGED <<status, fatal>>
            ELSE /\ Fatal("Apply")
                 /\ UNCHANGED key
    /\ UNCHANGED <<prog, dotenvOK, env, warned, opened, closed, it>>
    /\ UNCHANGED <<keyVars, insVars>>

\* writeRow(ctx, tbl, cfg, "sensor-42"): the key of time.Now(), tbl.Apply
writeRow ==
    /\ prog = "widecolumn" /\ pc = "writeRow"
    /\ \E now \in Times, ok \in BOOLEAN :
         LET k == rowKey(Sensor42, now)
         IN  /\ calls' = Append(calls, Call("Apply", k, ok))
             /\ IF ok
                THEN /\ key' = k
                     /\ pc' = "readRow"
                     /\ UNCHANGED <<status, fatal>>
                ELSE /\ Fatal("Apply")
                     /\ UNCHANGED key
    /\ UNCHANGED <<prog, dotenvOK, env, warned, opened, closed, it>>
    /\ UNCHANGED <<keyVars, insVars>>

\* readRow that logs a failed ReadRow and returns
readRowLogOnly ==
    /\ prog = "widecolumn" /\ pc = "readRow"
    /\ \E ok \in BOOLEAN : calls' = Append(calls, Call("ReadRow", key, ok))
    /\ pc' = "scanRows"
    /\ UNCHANGED <<prog, dotenvOK, env, warned, opened, closed, key, it, status, fatal>>
    /\ UNCHANGED <<keyVars, insVars>>

\* readRow(ctx, tbl, rowKey): tbl.ReadRow
readRow ==
    /\ prog = "widecolumn" /\ pc = "readRow"
    /\ \E ok \in BOOLEAN :
         /\ calls' = Append(calls, Call("ReadRow", key, ok))
         /\ IF ok
            THEN pc' = "scanRows" /\ UNCHANGED <<status, fatal>>
            ELSE Fatal("ReadRow")
    /\ UNCHANGED <<prog, dotenvOK, env, warned, opened, closed, key, it>>
    /\ UNCHANGED <<keyVars, insVars>>

\* scanRows(ctx, tbl, "sensor-42#"): tbl.ReadRows, then main returns
scanRows ==
    /\ prog = "widecolumn" /\ pc = "scanRows"
    /\ \E ok \in BOOLEAN :
         /\ calls' = Append(calls, Call("ReadRows", Sensor42Prefix, ok))
         /\ IF ok
            THEN MainReturns(closed)
            ELSE Fatal("ReadRows") /\ UNCHANGED closed
    /\ UNCHANGED <<prog, dotenvOK, env, warned, opened, key, it>>
    /\ UNCHANGED <<keyVars, insVars>>

----------------------------------------------------------------------------
(* The warehouse example, src/unnamed/part_000.                            *)

\* StructSavers without the InsertID
StructSaversNoID(rs) ==
    [i \in 1..Len(rs) |-> [Struct |-> rs[i], InsertID |-> ""]]

\* the savers insertEvents builds: one per row, in order, InsertID = EventID
StructSavers(rs) ==
    [i \in 1..Len(rs) |-> [Struct |-> rs[i], InsertID |-> rs[i].EventID]]

\* the sample row main builds
SampleRow == [EventID |-> "evt-now", DeviceID |-> "device-123"]

\* main: godotenv.Load; a failure is logged and the run goes on
mainLoadEnv ==
    /\ prog = "warehouse" /\ pc = "mainLoadEnv"
    /\ warned' = ~dotenvOK
    /\ pc' = "mainCheckConfig"
    /\ UNCHANGED <<prog, dotenvOK, env, calls, opened, closed, key, it, status, fatal>>
    /\ UNCHANGED <<keyVars, insVars>>

\* main: the three values are read and checked
mainCheckConfig ==
    /\ prog = "warehouse" /\ pc = "mainCheckConfig"
    /\ IF env.PROJECT_ID = "" \/ env.BIG_QUERY_DATASET_ID = ""
          \/ env.BIG_QUERY_TABLE_ID = ""
       THEN Fatal("config")
       ELSE IF env.PROJECT_ID = Placeholder
       THEN Fatal("placeholder")
       ELSE pc' = "mainNewClient" /\ UNCHANGED <<status, fatal>>
    /\ UNCHANGED <<prog, dotenvOK, env, warned, calls, opened, closed, key, it>>
    /\ UNCHANGED <<keyVars, insVars>>

\* main: bigquery.NewClient, defer client.Close(), the BIG_QUERY_INSERT_SAMPLE test
mainNewClient ==
    /\ prog = "warehouse" /\ pc = "mainNewClient"
    /\ \E ok \in BOOLEAN :
         /\ calls' = Append(calls, Call("NewClient", <<>>, ok))
         /\ IF ok
            THEN /\ opened' = Append(opened, "main")
                 /\ pc' = IF env.BIG_QUERY_INSERT_SAMPLE = "1"
                          THEN "mainInsertSample" ELSE "queryNewClient"
                 /\ UNCHANGED <<status, fatal>>
            ELSE /\ Fatal("NewClient")
                 /\ UNCHANGED opened
    /\ UNCHANGED <<prog, dotenvOK, env, warned, closed, key, it>>
    /\ UNCHANGED <<keyVars, insVars>>

\* main: insertEvents with the one sample row; inserter.Put
mainInsertSample ==
    /\ prog = "warehouse" /\ pc = "mainInsertSample"
    /\ \E ok \in BOOLEAN :
         /\ calls' = Append(calls, Call("Put", StructSavers(<<SampleRow>>), ok))
         /\ IF ok
            THEN pc' = "queryNewClient" /\ UNCHANGED <<status, fatal>>
            ELSE Fatal("insertEvents")
    /\ UNCHANGED <<prog, dotenvOK, env, warned, opened, closed, key, it>>
    /\ UNCHANGED <<keyVars, insVars>>

\* queryEventsTable: its own bigquery.NewClient and defer client.Close(); an
\* error goes back to main, which ends the run
queryNewClient ==
    /\ prog = "warehouse" /\ pc = "queryNewClient"
    /\ \E ok \in BOOLEAN :
         /\ calls' = Append(calls, Call("NewClient", <<>>, ok))
         /\ IF ok
            THEN /\ opened' = Append(opened, "query")
                 /\ pc' = "queryRead"
                 /\ UNCHANGED <<status, fatal>>
            ELSE /\ Fatal("query")
                 /\ UNCHANGED opened
    /\ UNCHANGED <<prog, dotenvOK, env, warned, closed, key, it>>
    /\ UNCHANGED <<keyVars, insVars>>

\* queryEventsTable: q.Read; on an error the function returns, its deferred
\* Close runs, and main ends the run
queryRead ==
    /\ prog = "warehouse" /\ pc = "queryRead"
    /\ \E ok \in BOOLEAN :
         /\ calls' = Append(calls, Call("Read", <<>>, ok))
         /\ IF ok
            THEN /\ \E n \in 0..MaxRows : it' = n
                 /\ pc' = "queryNext"
                 /\ UNCHANGED <<closed, status, fatal>>
            ELSE /\ closed' = closed \cup {"query"}
                 /\ Fatal("query")
                 /\ UNCHANGED it
    /\ UNCHANGED <<prog, dotenvOK, env, warned, opened, key>>
    /\ UNCHANGED <<keyVars, insVars>>

\* queryEventsTable: one turn of the loop around it.Next; iterator.Done ends
\* the loop, the function and main return and both deferred Closes run
queryNext ==
    /\ prog = "warehouse" /\ pc = "queryNext"
    /\ \E ok \in BOOLEAN :
         /\ calls' = Append(calls, Call("Next", <<>>, ok))
         /\ IF ~ok
            THEN /\ closed' = closed \cup {"query"}
                 /\ Fatal("query")
                 /\ UNCHANGED it
            ELSE IF it = 0
            THEN /\ MainReturns(closed \cup {"query"})
                 /\ UNCHANGED it
            ELSE /\ it' = it - 1
                 /\ UNCHANGED <<pc, closed, status, fatal>>
    /\ UNCHANGED <<prog, dotenvOK, env, warned, opened, key>>
    /\ UNCHANGED <<keyVars, insVars>>

----------------------------------------------------------------------------
(* A run of one of the two programs.                                       *)

Init ==
    /\ \/ prog = "warehouse" /\ pc = "mainLoadEnv" /\ env \in WarehouseEnvs
       \/ prog = "widecolumn" /\ pc = "loadConfig" /\ env \in WideColumnEnvs
    /\ dotenvOK \in BOOLEAN
    /\ warned = FALSE /\ calls = <<>> /\ opened = <<>> /\ closed = {}
    /\ key = <<>> /\ it = 0 /\ status = "running" /\ fatal = ""
    /\ KeyIdle /\ InsIdle

Next ==
    \/ loadConfig \/ createBigtableClient \/ writeRow \/ readRow \/ scanRows
    \/ mainLoadEnv \/ mainCheckConfig \/ mainNewClient \/ mainInsertSample
    \/ queryNewClient \/ queryRead \/ queryNext

Spec == Init /\ [][Next]_vars

----------------------------------------------------------------------------
(* rowKey on its own: two calls, and another call between them.            *)

InitKey ==
    /\ device \in Devices /\ t1 \in Times /\ t2 \in Times
    /\ k1 = <<>> /\ k2 = <<>> /\ other = <<>> /\ kpc = "first"
    /\ ProgIdle /\ InsIdle

CallFirst ==
    /\ kpc = "first"
    /\ k1' = rowKey(device, t1)
    /\ kpc' = "between"
    /\ UNCHANGED <<device, t1, t2, k2, other>>
    /\ UNCHANGED <<progVars, insVars>>

\* a call for some other device, at the latest instant
CallOther ==
    /\ kpc = "between" /\ other = <<>>
    /\ \E d \in Devices : other' = rowKey(d, MaxTime)
    /\ UNCHANGED <<device, t1, t2, k1, k2, kpc>>
    /\ UNCHANGED <<progVars, insVars>>

CallSecond ==
    /\ kpc = "between"
    /\ k2' = rowKey(device, t2)
    /\ kpc' = "done"
    /\ UNCHANGED <<device, t1, t2, k1, other>>
    /\ UNCHANGED <<progVars, insVars>>

NextKey == CallFirst \/ CallOther \/ CallSecond

SpecKey == InitKey /\ [][NextKey]_vars

----------------------------------------------------------------------------
(* insertEvents on its own, for every batch.                               *)

InitInsert ==
    /\ rows \in SeqsUpTo(EventRows, MaxBatch)
    /\ put = <<>> /\ insertErr = "" /\ ipc = "insertEvents"
    /\ ProgIdle /\ KeyIdle

\* insertEvents: the savers are built and handed to inserter.Put, whose error
\* is wrapped and returned
insertEvents ==
    /\ ipc = "insertEvents"
    /\ put' = StructSavers(rows)
    /\ \E ok \in BOOLEAN : insertErr' = IF ok THEN "" ELSE "inserter.Put"
    /\ ipc' = "done"
    /\ UNCHANGED rows
    /\ UNCHANGED <<progVars, keyVars>>

NextInsert == insertEvents

SpecInsert == InitInsert /\ [][NextInsert]_vars

----------------------------------------------------------------------------
(* Properties of rowKey (SpecKey).                                         *)

\* a < b in byte-wise lexicographic order
LexLess(a, b) ==
    \/ Len(a) < Len(b) /\ \A j \in 1..Len(a) : a[j] = b[j]
    \/ \E i \in 1..Len(a) :
         /\ i <= Len(b)
         /\ a[i] < b[i]
         /\ \A j \in 1..(i-1) : a[j] = b[j]

\* p is a prefix of s
HasPrefix(s, p) == Len(p) <= Len(s) /\ \A j \in 1..Len(p) : s[j] = p[j]

\* the millisecond values of the two instants
Ms1 == UnixMilli(t1)
Ms2 == UnixMilli(t2)

\* what follows the device identifier and the separator in a key
NumeralOf(k) == SubSeq(k, Len(device) + 2, Len(k))

\* 2^64, and 2^64 - 10^19
TwoTo64 == <<1,8,4,4,6,7,4,4,0,7,3,7,0,9,5,5,1,6,1,6>>
TwoTo64Less10To19 == <<0,8,4,4,6,7,4,4,0,7,3,7,0,9,5,5,1,6,1,6>>

\* (2^64 - 1) - (m mod 2^64)
Complement(m) ==
    Sub(MaxUint64, IF m.neg THEN Sub(TwoTo64, m.mag) ELSE m.mag)

\* n is the unpadded decimal numeral of the number v
IsNumeralOf(n, v) ==
    /\ Len(n) >= 1 /\ Len(n) <= W
    /\ \A i \in 1..Len(n) : n[i] \in 48..57
    /\ Len(n) > 1 => n[1] /= 48
    /\ \A i \in 1..W :
         v[i] = IF i > W - Len(n) THEN n[i - (W - Len(n))] - 48 ELSE 0

\* 0 <= m < 2^64 - 10^19
InWideRange(m) == ~m.neg /\ Less(m.mag, TwoTo64Less10To19)

\* C1 (as claimed): for one device and any two instants whose millisecond values
\* differ, the later instant's key is a different string and sorts strictly
\* before the earlier one's, before the epoch as well as after it.
C1_DescendingOrder ==
    (kpc = "done" /\ SLess(Ms1, Ms2)) => (k2 /= k1 /\ LexLess(k2, k1))

\* C1 (amended): for one device and two instants whose millisecond values
\* m1 < m2 both lie in 0 <= m < 2^64 - 10^19, the later instant's key is a
\* different string and sorts strictly before the earlier one's.
C1_DescendingOrderInRange ==
    (kpc = "done" /\ InWideRange(Ms1) /\ InWideRange(Ms2) /\ SLess(Ms1, Ms2))
        => (k2 /= k1 /\ LexLess(k2, k1))

\* two instants of that range exactly one millisecond apart
C1_Witness ==
    /\ kpc = "done"
    /\ InWideRange(Ms1) /\ InWideRange(Ms2)
    /\ Ms2 = SAddNat(Ms1, FromNat(1))
    /\ k2 /= k1 /\ LexLess(k2, k1)

\* C6: two calls of rowKey with the same device and instants of the same
\* millisecond value return the same key, whatever the rest of the instant is
\* and whatever was computed between the two calls.
C6_Deterministic ==
    (kpc = "done" /\ Ms1 = Ms2) => k1 = k2

C6_Witness ==
    /\ kpc = "done" /\ other /= <<>>
    /\ t1 /= t2 /\ Ms1 = Ms2
    /\ k1 = k2 /\ k1 /= <<>>

\* C8: every key is the device identifier, '#', and the unpadded decimal numeral
\* of (2^64 - 1) - (m mod 2^64), m the millisecond value; a negative m wraps.
C8_KeyFormat ==
    /\ kpc /= "first" =>
         /\ HasPrefix(k1, device \o <<35>>)
         /\ IsNumeralOf(NumeralOf(k1), Complement(Ms1))
    /\ kpc = "done" =>
         /\ HasPrefix(k2, device \o <<35>>)
         /\ IsNumeralOf(NumeralOf(k2), Complement(Ms2))

C8_Witness ==
    /\ kpc = "done"
    /\ Ms1.neg /\ ~Ms2.neg
    /\ Len(NumeralOf(k1)) < Len(NumeralOf(k2))

\* C10: the numeral has exactly 20 digits when 0 <= m < 2^64 - 10^19 and fewer
\* otherwise; two keys of one device in that range have the same length and
\* their lexicographic order is the reverse of the order of the m.
C10_Width ==
    /\ kpc /= "first" =>
         IF InWideRange(Ms1) THEN Len(NumeralOf(k1)) = 20
                             ELSE Len(NumeralOf(k1)) < 20
    /\ kpc = "done" =>
         /\ IF InWideRange(Ms2) THEN Len(NumeralOf(k2)) = 20
                                ELSE Len(NumeralOf(k2)) < 20
         /\ (InWideRange(Ms1) /\ InWideRange(Ms2)) =>
               /\ Len(k1) = Len(k2)
               /\ LexLess(k2, k1) <=> SLess(Ms1, Ms2)
               /\ k1 = k2 <=> Ms1 = Ms2

C10_Witness ==
    /\ kpc = "done"
    /\ InWideRange(Ms1) /\ InWideRange(Ms2)
    /\ SLess(Ms1, Ms2)
    /\ LexLess(k2, k1)
    /\ Len(NumeralOf(k1)) = 20

----------------------------------------------------------------------------
(* Properties of insertEvents (SpecInsert).                                *)

\* C4: Put is handed one saver per input record, in input order, each with the
\* record it was made from and InsertID equal to that record's EventID; records
\* with the same EventID are sent with the same InsertID.
C4_SaversCarryEventID ==
    ipc = "done" =>
        /\ Len(put) = Len(rows)
        /\ \A i \in 1..Len(rows) :
             /\ put[i].Struct = rows[i]
             /\ put[i].InsertID = rows[i].EventID
        /\ \A i, j \in 1..Len(rows) :
             rows[i].EventID = rows[j].EventID => put[i].InsertID = put[j].InsertID

C4_Witness ==
    /\ ipc = "done"
    /\ Len(rows) >= 2 /\ Len(put) = Len(rows)
    /\ rows[1] /= rows[2]
    /\ rows[1].EventID = rows[2].EventID
    /\ put[1].InsertID = put[2].InsertID

----------------------------------------------------------------------------
(* Properties of the two programs (Spec).                                  *)

\* a required configuration value is empty
MissingConfig ==
    IF prog = "warehouse"
    THEN env.PROJECT_ID = "" \/ env.BIG_QUERY_DATASET_ID = ""
         \/ env.BIG_QUERY_TABLE_ID = ""
    ELSE env.PROJECT_ID = "" \/ env.INSTANCE_ID = "" \/ env.TABLE_ID = ""
         \/ env.COLUMN_FAMILY = ""

\* C2 (as claimed): with a required configuration value missing, no external
\* call is ever made and no client is constructed, and the run does not end
\* with success.
C2_MissingConfigNoCall ==
    MissingConfig => (calls = <<>> /\ opened = <<>> /\ status /= "exit0")

\* C3: an external operation that fails is the last one of the run, and the run
\* has ended with a non-zero exit status.
C3_FailureEndsRun ==
    \A i \in 1..Len(calls) :
        ~calls[i].ok => (i = Len(calls) /\ status = "exit1")

C3_Witness ==
    /\ prog = "warehouse"
    /\ Len(calls) = 2
    /\ calls[2].op = "Put" /\ ~calls[2].ok
    /\ status = "exit1"

\* C5 (as claimed): at most one client is acquired in a run, and when the
\* process has ended every client that was acquired has been closed.
C5_ClientOnceAndReleased ==
    /\ Len(opened) <= 1
    /\ status /= "running" => \A i \in 1..Len(opened) : opened[i] \in closed

\* C7: when the .env file cannot be loaded, the warehouse program has warned,
\* goes on to its configuration checks and never ends for that reason: with the
\* required values set it ends, if at all, only after an external call; the
\* wide-column program has ended fatally with no client and no external call.
C7_DotenvFailure ==
    ~dotenvOK =>
        /\ (prog = "warehouse" /\ pc /= "mainLoadEnv") =>
              /\ warned
              /\ fatal /= "dotenv"
              /\ pc = "mainCheckConfig" => status = "running"
              /\ (~MissingConfig /\ env.PROJECT_ID /= "your-gcp-project-id"
                    /\ pc /= "mainCheckConfig") =>
                    (pc = "mainNewClient" \/ calls /= <<>>)
        /\ (prog = "widecolumn" /\ pc /= "loadConfig") =>
              /\ status = "exit1" /\ fatal = "dotenv"
              /\ calls = <<>> /\ opened = <<>>

C7_Witness ==
    /\ ~dotenvOK /\ prog = "warehouse"
    /\ warned
    /\ Len(calls) >= 2 /\ status = "exit0"

\* the external operations after the client's construction
AfterNewClient == IF calls = <<>> THEN <<>> ELSE Tail(calls)

\* C9: in the wide-column program the operations are write, read, scan, in that
\* order and each at most once; the read's key is the key the write applied,
\* and that key begins with the scan prefix "sensor-42#".
C9_WriteReadScan ==
    prog = "widecolumn" =>
        LET ops == AfterNewClient
            order == <<"Apply", "ReadRow", "ReadRows">>
        IN  /\ Len(ops) <= 3
            /\ \A i \in 1..Len(ops) : ops[i].op = order[i]
            /\ Len(ops) >= 1 =>
                 HasPrefix(ops[1].arg, <<115, 101, 110, 115, 111, 114, 45, 52, 50, 35>>)
            /\ Len(ops) >= 2 => ops[2].arg = ops[1].arg
            /\ Len(ops) >= 3 =>
                 /\ ops[3].arg = <<115, 101, 110, 115, 111, 114, 45, 52, 50, 35>>
                 /\ HasPrefix(ops[1].arg, ops[3].arg)

C9_Witness ==
    /\ prog = "widecolumn" /\ status = "exit0"
    /\ Len(calls) = 4
    /\ calls[3].arg = calls[2].arg
    /\ calls[4].op = "ReadRows"
====
